---- MODULE Spec2Model ----
(***************************************************************************)
(* The Firebolt source connector (source_firebolt/source.py): check,       *)
(* discover and read, run against a fake remote store whose connections    *)
(* and cursors record every open, close and execute call.                  *)
(***************************************************************************)
EXTENDS Integers, Sequences, FiniteSets, TLC

\* ------------------------------------------------------------------ bounds
\* The most tables the remote store lists.
MaxTables == 2
\* The most rows a table of the remote store holds.
MaxRows == 2
\* The most configured streams a selection handed to read lists.
MaxSelection == 2

\* ------------------------------------------------------- the remote store
TableNames == {"users", "orders", "events"}

\* SHOW COLUMNS <table>: (table name, column name, native type, nullable)
\* tuples in the store's column order.
ShowColumns(table) ==
    CASE table = "users"  -> << <<"users", "id", "INT", FALSE>>,
                               <<"users", "name", "TEXT", TRUE>> >>
      [] table = "orders" -> << <<"orders", "id", "INT", FALSE>> >>
      [] OTHER            -> << <<table, "ts", "TIMESTAMP", FALSE>>,
                               <<table, "pay\"load", "GEOGRAPHY", TRUE>> >>

StoreRowCount(table) ==
    CASE table = "users"  -> MaxRows
      [] table = "orders" -> 1
      [] OTHER            -> MaxRows

RowTags == <<"r1", "r2", "r3", "r4">>

\* The value the store holds in row i, column c of a table. The first row of
\* "events" holds nothing an envelope can represent.
StoreValue(table, i, c) ==
    IF table = "events" /\ i = 1 THEN "unrepresentable"
    ELSE IF c = "name" /\ i = 2 THEN "null"
    ELSE RowTags[i] \o "." \o c

\* The rows a projection query over `columns` of `table` returns: one tuple
\* per row, values aligned with the requested columns.
StoreSelect(table, columns) ==
    [i \in 1..StoreRowCount(table) |->
        [k \in 1..Len(columns) |-> StoreValue(table, i, columns[k])]]

\* The identifier quote of the store's query language.
Quote == "\""

\* The store reading a quoted identifier from position `i` of `chars`, `name`
\* being what it has read of it: a doubled quote stands for a quote character
\* of the name, a single one ends the identifier.
RECURSIVE ScanQuoted(_, _, _)
ScanQuoted(chars, i, name) ==
    IF i > Len(chars)
    THEN [ok |-> FALSE, name |-> name, rest |-> <<>>]
    ELSE IF chars[i] # Quote
    THEN ScanQuoted(chars, i + 1, Append(name, chars[i]))
    ELSE IF i < Len(chars) /\ chars[i + 1] = Quote
    THEN ScanQuoted(chars, i + 2, Append(name, Quote))
    ELSE [ok |-> TRUE, name |-> name, rest |-> SubSeq(chars, i + 1, Len(chars))]

\* The store reading the quoted identifier `chars` starts with: the name it
\* stands for and the characters left after its closing quote.
LexIdentifier(chars) ==
    IF Len(chars) = 0 \/ chars[1] # Quote
    THEN [ok |-> FALSE, name |-> <<>>, rest |-> chars]
    ELSE ScanQuoted(chars, 2, <<>>)

\* ---------------------------------------------------------- pure helpers
Range(s) == {s[i] : i \in 1..Len(s)}

IsInjective(s) == \A i, j \in 1..Len(s) : s[i] = s[j] => i = j

\* Sequences over S without repetition, of length at most n.
RECURSIVE DistinctSeqs(_, _)
DistinctSeqs(S, n) ==
    IF n = 0 THEN {<<>>}
    ELSE LET shorter == DistinctSeqs(S, n - 1)
             longer  == {Append(s, x) : s \in shorter, x \in S}
         IN  shorter \cup {s \in longer : IsInjective(s)}

RECURSIVE JoinComma(_)
JoinComma(s) ==
    IF Len(s) = 0 THEN ""
    ELSE IF Len(s) = 1 THEN s[1]
    ELSE s[1] \o "," \o JoinComma(Tail(s))

\* Python dict item assignment d[k] = v on an insertion-ordered mapping, kept
\* as a sequence of [name, type] entries: an existing key keeps its position.
DictSet(d, k, v) ==
    IF \E i \in 1..Len(d) : d[i].name = k
    THEN [i \in 1..Len(d) |-> IF d[i].name = k THEN [name |-> k, type |-> v] ELSE d[i]]
    ELSE Append(d, [name |-> k, type |-> v])

\* list(d.keys())
DictKeys(d) == [i \in 1..Len(d) |-> d[i].name]

\* ------------------------------------------------------------ Type Mapper
\* convert_type(c_type, nullable): total; an unrecognised native type maps to
\* "unknown"; nullability is carried beside the base type.
convert_type(c_type, nullable) ==
    LET base == CASE c_type = "INT"       -> "integer"
                  [] c_type = "TEXT"      -> "string"
                  [] c_type = "TIMESTAMP" -> "timestamp"
                  [] OTHER                -> "unknown"
    IN  [type |-> base, nullable |-> nullable]

\* ------------------------------------------------------ Record Normalizer
\* airbyte_message_from_data(raw_data, columns, table_name): the envelope of
\* one row, "none" for a row that is entirely unrepresentable, an internal
\* error for a row that is not aligned with the column list.
airbyte_message_from_data(raw_data, columns, table_name) ==
    IF Len(raw_data) # Len(columns)
    THEN [kind |-> "error", stream |-> table_name, data |-> <<>>]
    ELSE IF Len(raw_data) > 0 /\ \A k \in 1..Len(raw_data) : raw_data[k] = "unrepresentable"
    THEN [kind |-> "none", stream |-> table_name, data |-> <<>>]
    ELSE [kind |-> "record", stream |-> table_name,
          data |-> [k \in 1..Len(columns) |-> [name |-> columns[k], value |-> raw_data[k]]]]

\* -------------------------------------------------- the fake connection
\* Every call on the remote store either succeeds or raises.
Outcomes == {"ok", "fail"}

\* The store's count of the errors it raised, after a call that ended `outcome`.
Faults(n, outcome) == IF outcome = "ok" THEN n ELSE n + 1

NoExc == [origin |-> "none", text |-> ""]

\* str(e) of the error a failing call raises; the close failure carries an
\* empty text.
ErrText(origin) ==
    CASE origin = "acquire" -> "invalid credentials"
      [] origin = "cursor"  -> "connection lost"
      [] origin = "close"   -> ""
      [] OTHER              -> "query failed"

Raise(origin) == [origin |-> origin, text |-> ErrText(origin)]

GeneratorExit == [origin |-> "GeneratorExit", text |-> ""]

NoQuery == [kind |-> "none", table |-> "", columns |-> <<>>, text |-> ""]

\* A session just opened by establish_connection / establish_async_connection.
NewSession == [open |-> TRUE, closes |-> 0]

\* Connection.close(), as the scope exit of a `with` block calls it.
CloseSession(ss, id) ==
    [ss EXCEPT ![id] = [open |-> FALSE, closes |-> @.closes + 1]]

\* connection.cursor(): a new cursor of session `conn`, held by `owner`
\* (0 is the calling method itself, i > 0 the i-th per-table task).
NewCursor(conn, owner) ==
    [conn |-> conn, owner |-> owner, open |-> TRUE, closes |-> 0, query |-> NoQuery]

\* cursor.close()
CloseCursor(cs, id) ==
    [cs EXCEPT ![id] = [@ EXCEPT !.open = FALSE, !.closes = @ + 1]]

\* cursor.execute(query): the cursor now holds the result of `query`.
ExecuteOn(cs, id, query) == [cs EXCEPT ![id] = [@ EXCEPT !.query = query]]

\* cursor.fetchall(): every row of the result the cursor holds.
FetchAll(cs, id) ==
    LET q == cs[id].query
    IN  CASE q.kind = "show"   -> ShowColumns(q.table)
          [] q.kind = "select" -> StoreSelect(q.table, q.columns)
          [] OTHER             -> <<>>

\* The store's log of one executed query: the cursor it ran on and how the
\* store answered it ("pending" until it answers).
Logged(cursor, query, outcome) == [cursor |-> cursor, query |-> query, outcome |-> outcome]

\* The log once the store has answered the latest query of `cursor`.
Answered(log, cursor, outcome) ==
    LET mine == {k \in 1..Len(log) : log[k].cursor = cursor}
    IN  [k \in 1..Len(log) |->
            IF k \in mine /\ \A j \in mine : j <= k
            THEN [log[k] EXCEPT !.outcome = outcome]
            ELSE log[k]]

ExecuteOutcome(outcome) == IF outcome = "ok" THEN "ok" ELSE "execute_failed"

OpenSessions(ss) == {i \in 1..Len(ss) : ss[i].open}
OpenCursors(cs) == {i \in 1..Len(cs) : cs[i].open}

\* ------------------------------------------------------------------ state
VARIABLES
    tables,       \* the table names the store lists, in listing order
    op,           \* the method being called: "none", "check", "discover", "read"
    pc,           \* the position reached inside it
    acquires,     \* establish_connection calls made by the current call
    sessions,     \* the sessions the current call opened
    cursors,      \* the cursors the current call (and its tasks) opened
    queries,      \* the queries executed by the current call, in order, with their outcome
    faults,       \* the errors the store raised during the current call
    exc,          \* the exception propagating through the current call
    result,       \* what the call returned or raised
    tasks,        \* discover: the per-table tasks gather runs
    streams,      \* discover: the list gather returned
    catalog,      \* the catalog of the latest discover call that returned one
    prevCatalog,  \* the catalog of the discover call before that one
    selection,    \* read: catalog.streams
    pos,          \* read: index of the configured stream being processed
    buffer,       \* read: rows of cursor.fetchall() not yet iterated
    emitted,      \* read: the messages yielded so far
    consumer,     \* read: "pulling", or "stopped" once it dropped the generator
    state,        \* read: the state argument of the call
    pulls         \* read: the messages the consumer has asked for

vars == <<tables, op, pc, acquires, sessions, cursors, queries, faults, exc, result, tasks,
          streams, catalog, prevCatalog, selection, pos, buffer, emitted, consumer,
          state, pulls>>

connVars == <<acquires, sessions, cursors, queries, faults>>
discoverVars == <<tasks, streams>>
catalogVars == <<catalog, prevCatalog>>
readVars == <<selection, pos, buffer, emitted, consumer>>
callVars == <<state, pulls>>

\* The state a caller hands to read: none, or the checkpoint of an earlier run.
NoState == "{}"
States == {NoState, "{\"users\": {\"cursor\": 1}}"}

NoResult == [kind |-> "none", status |-> "", message |-> "", error |-> NoExc]
NoCatalog == [ok |-> FALSE, streams |-> <<>>]

Init ==
    /\ tables \in DistinctSeqs(TableNames, MaxTables)
    /\ op = "none"
    /\ pc = "idle"
    /\ acquires = 0
    /\ sessions = <<>>
    /\ cursors = <<>>
    /\ queries = <<>>
    /\ faults = 0
    /\ exc = NoExc
    /\ result = NoResult
    /\ tasks = <<>>
    /\ streams = <<>>
    /\ catalog = NoCatalog
    /\ prevCatalog = NoCatalog
    /\ selection = <<>>
    /\ pos = 0
    /\ buffer = <<>>
    /\ emitted = <<>>
    /\ consumer = "pulling"
    /\ state = NoState
    /\ pulls = 0

\* A call has returned or raised: the caller may make the next call.
Returned == pc \in {"idle", "returned", "raised", "exhausted", "closed"}

\* What every call starts from: nothing opened, nothing executed; `sel` and
\* `st` are the selection and the state the call is handed (none but for read).
BeginCall(method, at, sel, st) ==
    /\ Returned
    /\ op' = method
    /\ pc' = at
    /\ acquires' = 0
    /\ sessions' = <<>>
    /\ cursors' = <<>>
    /\ queries' = <<>>
    /\ faults' = 0
    /\ exc' = NoExc
    /\ result' = NoResult
    /\ tasks' = <<>>
    /\ streams' = <<>>
    /\ pos' = 0
    /\ buffer' = <<>>
    /\ emitted' = <<>>
    /\ consumer' = "pulling"
    /\ selection' = sel
    /\ state' = st
    /\ pulls' = 0
    /\ UNCHANGED tables

\* --------------------------------------------------------------- check
\* source.py:51 check(logger, config)
CheckCall ==
    /\ BeginCall("check", "c_acquire", <<>>, NoState)
    /\ UNCHANGED catalogVars

\* source.py:64 with establish_connection(config, logger) as connection
CheckAcquire ==
    /\ op = "check" /\ pc = "c_acquire"
    /\ acquires' = acquires + 1
    /\ \E outcome \in Outcomes :
       /\ faults' = Faults(faults, outcome)
       /\ IF outcome = "ok"
         THEN /\ sessions' = Append(sessions, NewSession)
              /\ pc' = "c_cursor"
              /\ UNCHANGED exc
         ELSE /\ exc' = Raise("acquire")
              /\ pc' = "c_except"
              /\ UNCHANGED sessions
    /\ UNCHANGED <<tables, callVars, op, cursors, queries, result, discoverVars, catalogVars, readVars>>

\* source.py:66 with connection.cursor() as cursor
CheckCursor ==
    /\ op = "check" /\ pc = "c_cursor"
    /\ \E outcome \in Outcomes :
       /\ faults' = Faults(faults, outcome)
       /\ IF outcome = "ok"
         THEN /\ cursors' = Append(cursors, NewCursor(Len(sessions), 0))
              /\ pc' = "c_execute"
              /\ UNCHANGED exc
         ELSE /\ exc' = Raise("cursor")
              /\ pc' = "c_conn_exit"
              /\ UNCHANGED cursors
    /\ UNCHANGED <<tables, callVars, op, acquires, sessions, queries, result, discoverVars,
                   catalogVars, readVars>>

ProbeQuery == [kind |-> "probe", table |-> "", columns |-> <<>>, text |-> "SELECT 1"]

\* CheckExecute with a failed probe query executed a second time before the
\* failure is let through.
CheckExecuteRetryOnce ==
    /\ op = "check" /\ pc = "c_execute"
    /\ \E outcome \in Outcomes :
       /\ faults' = Faults(faults, outcome)
       /\ queries' = Append(queries, Logged(Len(cursors), ProbeQuery, ExecuteOutcome(outcome)))
       /\ IF outcome = "ok"
          THEN /\ cursors' = ExecuteOn(cursors, Len(cursors), ProbeQuery)
               /\ pc' = "c_cursor_exit"
               /\ UNCHANGED exc
          ELSE /\ exc' = IF Len(queries) = 0 THEN exc ELSE Raise("execute")
               /\ pc' = IF Len(queries) = 0 THEN "c_execute" ELSE "c_cursor_exit"
               /\ UNCHANGED cursors
    /\ UNCHANGED <<tables, callVars, op, acquires, sessions, result, discoverVars, catalogVars, readVars>>

\* source.py:67 cursor.execute("SELECT 1")
CheckExecute ==
    /\ op = "check" /\ pc = "c_execute"
    /\ \E outcome \in Outcomes :
       /\ faults' = Faults(faults, outcome)
       /\ queries' = Append(queries, Logged(Len(cursors), ProbeQuery, ExecuteOutcome(outcome)))
       /\ IF outcome = "ok"
         THEN /\ cursors' = ExecuteOn(cursors, Len(cursors), ProbeQuery)
              /\ UNCHANGED exc
         ELSE /\ exc' = Raise("execute")
              /\ UNCHANGED cursors
    /\ pc' = "c_cursor_exit"
    /\ UNCHANGED <<tables, callVars, op, acquires, sessions, result, discoverVars, catalogVars, readVars>>

\* source.py:66 leaving the cursor's with block closes the cursor; an error
\* raised by the close replaces the one propagating.
CheckCursorExit ==
    /\ op = "check" /\ pc = "c_cursor_exit"
    /\ cursors' = CloseCursor(cursors, Len(cursors))
    /\ \E outcome \in Outcomes :
       /\ faults' = Faults(faults, outcome)
       /\ exc' = IF outcome = "ok" THEN exc ELSE Raise("close")
    /\ pc' = "c_conn_exit"
    /\ UNCHANGED <<tables, callVars, op, acquires, sessions, queries, result, discoverVars,
                   catalogVars, readVars>>

\* CheckConnExit with the connection's with block outside the try: an error of
\* the close is not caught.
CheckConnExitOutsideTry ==
    /\ op = "check" /\ pc = "c_conn_exit"
    /\ sessions' = CloseSession(sessions, Len(sessions))
    /\ \E outcome \in Outcomes :
       /\ faults' = Faults(faults, outcome)
       /\ IF outcome = "ok"
          THEN IF exc = NoExc
               THEN /\ result' = [kind |-> "status", status |-> "SUCCEEDED", message |-> "",
                                  error |-> NoExc]
                    /\ pc' = "returned"
                    /\ UNCHANGED exc
               ELSE /\ pc' = "c_except"
                    /\ UNCHANGED <<exc, result>>
          ELSE /\ result' = [kind |-> "raised", status |-> "", message |-> "",
                             error |-> Raise("close")]
               /\ pc' = "raised"
               /\ exc' = NoExc
    /\ UNCHANGED <<tables, callVars, op, acquires, cursors, queries, discoverVars, catalogVars, readVars>>

\* source.py:64,68 leaving the connection's with block (by the return of line
\* 68 or by an exception) closes the connection.
CheckConnExit ==
    /\ op = "check" /\ pc = "c_conn_exit"
    /\ sessions' = CloseSession(sessions, Len(sessions))
    /\ \E outcome \in Outcomes :
       /\ faults' = Faults(faults, outcome)
       /\ LET e == IF outcome = "ok" THEN exc ELSE Raise("close")
         IN  IF e = NoExc
             THEN /\ result' = [kind |-> "status", status |-> "SUCCEEDED", message |-> "",
                                error |-> NoExc]
                  /\ pc' = "returned"
                  /\ UNCHANGED exc
             ELSE /\ exc' = e
                  /\ pc' = "c_except"
                  /\ UNCHANGED result
    /\ UNCHANGED <<tables, callVars, op, acquires, cursors, queries, discoverVars, catalogVars, readVars>>

\* source.py:70 f"An exception occurred: {str(e)}"
FailureMessage(e) == "An exception occurred: " \o e.text

\* source.py:69-70 except Exception as e: return FAILED
CheckExcept ==
    /\ op = "check" /\ pc = "c_except"
    /\ result' = [kind |-> "status", status |-> "FAILED", message |-> FailureMessage(exc),
                  error |-> exc]
    /\ exc' = NoExc
    /\ pc' = "returned"
    /\ UNCHANGED <<tables, callVars, op, connVars, discoverVars, catalogVars, readVars>>

Check == CheckCall \/ CheckAcquire \/ CheckCursor \/ CheckExecute \/ CheckCursorExit
            \/ CheckConnExit \/ CheckExcept

\* ------------------------------------------------------------- discover
\* SUPPORTED_SYNC_MODES with the incremental mode advertised as well.
SUPPORTED_SYNC_MODES_WithIncremental == <<"full_refresh", "incremental">>

\* source.py:25
SUPPORTED_SYNC_MODES == <<"full_refresh">>

\* source.py:39-41 the loop over the fetched (t_name, c_name, c_type, nullable)
\* tuples, filling column_mapping.
RECURSIVE ColumnMapping(_, _)
ColumnMapping(mapping, rows) ==
    IF Len(rows) = 0 THEN mapping
    ELSE ColumnMapping(DictSet(mapping, Head(rows)[2],
                               convert_type(Head(rows)[3], Head(rows)[4])),
                       Tail(rows))

\* source.py:43-47 the AirbyteStream get_table_stream returns
AirbyteStream(table, column_mapping) ==
    [name |-> table,
     json_schema |-> [type |-> "object", properties |-> column_mapping],
     supported_sync_modes |-> SUPPORTED_SYNC_MODES]

NoStream == AirbyteStream("", <<>>)

\* The coroutine get_table_stream(connection, table) before its first step.
NewTask(conn, table) ==
    [table |-> table, pc |-> "new", conn |-> conn, cursor |-> 0,
     stream |-> NoStream, error |-> NoExc]

ShowQuery(table) ==
    [kind |-> "show", table |-> table, columns |-> <<>>,
     text |-> "SHOW COLUMNS " \o table]

ListQuery == [kind |-> "list", table |-> "", columns |-> <<>>, text |-> "list tables"]

\* source.py:72 discover(logger, config); line 97 runs get_streams on the loop
DiscoverCall ==
    /\ BeginCall("discover", "d_acquire", <<>>, NoState)
    /\ UNCHANGED catalogVars

\* source.py:91 await establish_async_connection(config, logger)
DiscoverAcquire ==
    /\ op = "discover" /\ pc = "d_acquire"
    /\ acquires' = acquires + 1
    /\ \E outcome \in Outcomes :
       /\ faults' = Faults(faults, outcome)
       /\ IF outcome = "ok"
         THEN /\ sessions' = Append(sessions, NewSession)
              /\ pc' = "d_tables"
              /\ UNCHANGED result
         ELSE /\ result' = [kind |-> "raised", status |-> "", message |-> "",
                            error |-> Raise("acquire")]
              /\ pc' = "raised"
              /\ UNCHANGED sessions
    /\ UNCHANGED <<tables, callVars, op, cursors, queries, exc, discoverVars, catalogVars, readVars>>

\* source.py:92-94 tables = await get_firebolt_tables(connection), then gather
\* is handed one get_table_stream coroutine per table, in listing order.
DiscoverTables ==
    /\ op = "discover" /\ pc = "d_tables"
    /\ \E outcome \in Outcomes :
       /\ faults' = Faults(faults, outcome)
       /\ queries' = Append(queries, Logged(0, ListQuery, ExecuteOutcome(outcome)))
       /\ IF outcome = "ok"
         THEN /\ tasks' = [i \in 1..Len(tables) |-> NewTask(Len(sessions), tables[i])]
              /\ pc' = "d_gather"
              /\ UNCHANGED exc
         ELSE /\ exc' = Raise("list")
              /\ pc' = "d_conn_exit"
              /\ UNCHANGED tasks
    /\ UNCHANGED <<tables, callVars, op, acquires, sessions, cursors, result, streams, catalogVars,
                   readVars>>

\* gather's done-callback: the first task to fail sets the exception of the
\* future get_streams awaits; later failures are dropped.
GatherException(current, e) == IF current = NoExc THEN e ELSE current

\* TaskStart with one cursor made once and used by every task.
TaskStartSharedCursor(i) ==
    /\ op = "discover" /\ pc = "d_gather"
    /\ i \in 1..Len(tasks) /\ tasks[i].pc = "new"
    /\ \A j \in 1..(i - 1) : tasks[j].pc # "new"
    /\ cursors' = IF Len(cursors) = 0 THEN <<NewCursor(tasks[i].conn, i)>> ELSE cursors
    /\ tasks' = [tasks EXCEPT ![i] = [@ EXCEPT !.pc = "await_execute", !.cursor = 1]]
    /\ queries' = Append(queries, Logged(1, ShowQuery(tasks[i].table), "pending"))
    /\ UNCHANGED <<tables, callVars, op, pc, acquires, sessions, faults, exc, result, streams,
                   catalogVars, readVars>>

\* Every task gather created has run its first step.
AllStarted(ts) == \A j \in 1..Len(ts) : ts[j].pc # "new"

\* source.py:36-38 a task runs up to its first suspension: it takes a cursor of
\* the connection it was handed and issues SHOW COLUMNS on it. The loop runs
\* the first steps of the tasks in the order gather created them, before any
\* answer of the store is delivered.
TaskStart(i) ==
    /\ op = "discover" /\ pc = "d_gather"
    /\ i \in 1..Len(tasks) /\ tasks[i].pc = "new"
    /\ \A j \in 1..(i - 1) : tasks[j].pc # "new"
    /\ \E outcome \in Outcomes :
       /\ faults' = Faults(faults, outcome)
       /\ IF outcome = "ok"
         THEN /\ cursors' = Append(cursors, NewCursor(tasks[i].conn, i))
              /\ tasks' = [tasks EXCEPT ![i] = [@ EXCEPT !.pc = "await_execute",
                                                         !.cursor = Len(cursors) + 1]]
              /\ queries' = Append(queries, Logged(Len(cursors) + 1,
                                                    ShowQuery(tasks[i].table), "pending"))
              /\ UNCHANGED exc
         ELSE /\ tasks' = [tasks EXCEPT ![i] = [@ EXCEPT !.pc = "failed",
                                                         !.error = Raise("cursor")]]
              /\ exc' = GatherException(exc, Raise("cursor"))
              /\ UNCHANGED <<cursors, queries>>
    /\ UNCHANGED <<tables, callVars, op, pc, acquires, sessions, result, streams, catalogVars, readVars>>

\* source.py:38 await cursor.execute(...) completes or raises
TaskExecuteDone(i) ==
    /\ op = "discover" /\ pc = "d_gather"
    /\ AllStarted(tasks)
    /\ i \in 1..Len(tasks) /\ tasks[i].pc = "await_execute"
    /\ \E outcome \in Outcomes :
       /\ faults' = Faults(faults, outcome)
       /\ IF outcome = "ok"
         THEN /\ cursors' = ExecuteOn(cursors, tasks[i].cursor, ShowQuery(tasks[i].table))
              /\ tasks' = [tasks EXCEPT ![i] = [@ EXCEPT !.pc = "await_fetchall"]]
              /\ UNCHANGED exc
         ELSE /\ tasks' = [tasks EXCEPT ![i] = [@ EXCEPT !.pc = "failed",
                                                         !.error = Raise("execute")]]
              /\ exc' = GatherException(exc, Raise("execute"))
              /\ UNCHANGED cursors
       /\ queries' = Answered(queries, tasks[i].cursor, ExecuteOutcome(outcome))
    /\ UNCHANGED <<tables, callVars, op, pc, acquires, sessions, result, streams, catalogVars, readVars>>

\* source.py:39-47 await cursor.fetchall() completes: the mapping is built, the
\* cursor closed and the stream returned; or fetchall or close raises.
TaskFetchDone(i) ==
    /\ op = "discover" /\ pc = "d_gather"
    /\ AllStarted(tasks)
    /\ i \in 1..Len(tasks) /\ tasks[i].pc = "await_fetchall"
    /\ \E outcome \in Outcomes \cup {"close_fail"} :
       /\ faults' = Faults(faults, outcome)
       /\ CASE outcome = "ok" ->
                /\ cursors' = CloseCursor(cursors, tasks[i].cursor)
                /\ tasks' = [tasks EXCEPT ![i] =
                       [@ EXCEPT !.pc = "done",
                                 !.stream = AirbyteStream(tasks[i].table,
                                     ColumnMapping(<<>>, FetchAll(cursors, tasks[i].cursor)))]]
                /\ UNCHANGED exc
           [] outcome = "close_fail" ->
                /\ cursors' = CloseCursor(cursors, tasks[i].cursor)
                /\ tasks' = [tasks EXCEPT ![i] = [@ EXCEPT !.pc = "failed",
                                                           !.error = Raise("close")]]
                /\ exc' = GatherException(exc, Raise("close"))
           [] OTHER ->
                /\ tasks' = [tasks EXCEPT ![i] = [@ EXCEPT !.pc = "failed",
                                                           !.error = Raise("fetch")]]
                /\ exc' = GatherException(exc, Raise("fetch"))
                /\ UNCHANGED cursors
       /\ queries' = IF outcome = "fail"
                     THEN Answered(queries, tasks[i].cursor, "fetch_failed")
                     ELSE queries
    /\ UNCHANGED <<tables, callVars, op, pc, acquires, sessions, result, streams, catalogVars, readVars>>

\* The list gather returns: one result per awaitable, in the order they were
\* passed, whatever order they completed in.
GatherResults(ts) == [i \in 1..Len(ts) |-> ts[i].stream]

\* GatherReturn as a wait that returns on the first completed task.
GatherReturnFirstCompleted ==
    /\ op = "discover" /\ pc = "d_gather"
    /\ exc = NoExc
    /\ Len(tasks) = 0 \/ \E i \in 1..Len(tasks) : tasks[i].pc = "done"
    /\ streams' = SelectSeq(GatherResults(tasks), LAMBDA st : st # NoStream)
    /\ pc' = "d_conn_exit"
    /\ UNCHANGED <<tables, callVars, op, connVars, exc, result, tasks, catalogVars, readVars>>

\* source.py:94 every task has returned: gather returns their results
GatherReturn ==
    /\ op = "discover" /\ pc = "d_gather"
    /\ \A i \in 1..Len(tasks) : tasks[i].pc = "done"
    /\ streams' = GatherResults(tasks)
    /\ pc' = "d_conn_exit"
    /\ UNCHANGED <<tables, callVars, op, connVars, exc, result, tasks, catalogVars, readVars>>

\* GatherRaise as gather(..., return_exceptions=True) with the failed results
\* filtered out: the streams of the tasks that returned are kept.
GatherKeepSuccessful ==
    /\ op = "discover" /\ pc = "d_gather"
    /\ AllStarted(tasks)
    /\ exc # NoExc
    /\ \A i \in 1..Len(tasks) : tasks[i].pc \in {"done", "failed"}
    /\ streams' = SelectSeq(GatherResults(tasks), LAMBDA st : st # NoStream)
    /\ exc' = NoExc
    /\ pc' = "d_conn_exit"
    /\ UNCHANGED <<tables, callVars, op, connVars, result, tasks, catalogVars, readVars>>

\* source.py:94 a task has raised: the await of gather raises its exception in
\* get_streams, while the other tasks stay where they are.
GatherRaise ==
    /\ op = "discover" /\ pc = "d_gather"
    /\ AllStarted(tasks)
    /\ exc # NoExc
    /\ pc' = "d_conn_exit"
    /\ UNCHANGED <<tables, callVars, op, connVars, exc, result, discoverVars, catalogVars, readVars>>

\* source.py:98-99 return AirbyteCatalog(streams=streams)
AirbyteCatalog(ss) == [ok |-> TRUE, streams |-> ss]

\* DiscoverConnExit with the connection closed by a statement after gather
\* instead of by the async with statement: an exception skips the close.
DiscoverConnExitOnSuccessOnly ==
    /\ op = "discover" /\ pc = "d_conn_exit"
    /\ IF exc = NoExc
       THEN /\ sessions' = CloseSession(sessions, Len(sessions))
            /\ result' = [kind |-> "catalog", status |-> "", message |-> "", error |-> NoExc]
            /\ catalog' = AirbyteCatalog(streams)
            /\ prevCatalog' = catalog
            /\ pc' = "returned"
       ELSE /\ result' = [kind |-> "raised", status |-> "", message |-> "", error |-> exc]
            /\ pc' = "raised"
            /\ UNCHANGED <<sessions, catalogVars>>
    /\ exc' = NoExc
    /\ UNCHANGED <<tables, callVars, op, acquires, cursors, queries, faults, discoverVars, readVars>>

\* source.py:91,97-99 leaving the async with block closes the connection;
\* run_until_complete then returns the streams or raises.
DiscoverConnExit ==
    /\ op = "discover" /\ pc = "d_conn_exit"
    /\ sessions' = CloseSession(sessions, Len(sessions))
    /\ \E outcome \in Outcomes :
       /\ faults' = Faults(faults, outcome)
       /\ LET e == IF outcome = "ok" THEN exc ELSE Raise("close")
         IN  IF e = NoExc
             THEN /\ result' = [kind |-> "catalog", status |-> "", message |-> "",
                                error |-> NoExc]
                  /\ catalog' = AirbyteCatalog(streams)
                  /\ prevCatalog' = catalog
                  /\ pc' = "returned"
             ELSE /\ result' = [kind |-> "raised", status |-> "", message |-> "",
                                error |-> e]
                  /\ pc' = "raised"
                  /\ UNCHANGED catalogVars
    /\ exc' = NoExc
    /\ UNCHANGED <<tables, callVars, op, acquires, cursors, queries, discoverVars, readVars>>

\* The event loop runs the first step of a task, or delivers the store's
\* answer to a task that awaits it.
TaskStarts == \E i \in DOMAIN tasks : TaskStart(i)
TaskExecutes == \E i \in DOMAIN tasks : TaskExecuteDone(i)
TaskFetches == \E i \in DOMAIN tasks : TaskFetchDone(i)

Discover == DiscoverCall \/ DiscoverAcquire \/ DiscoverTables
               \/ TaskStarts \/ TaskExecutes \/ TaskFetches
               \/ GatherReturn \/ GatherRaise \/ DiscoverConnExit

\* ----------------------------------------------------------------- read
\* A configured stream: a stream of the catalog, as discovered or with its
\* column list narrowed to the first column.
ConfiguredAirbyteStream(stream, narrow) ==
    [stream |-> IF narrow /\ Len(stream.json_schema.properties) > 1
                THEN [stream EXCEPT !.json_schema.properties = SubSeq(@, 1, 1)]
                ELSE stream,
     sync_mode |-> "full_refresh"]

\* The selections a caller may hand to read: configured streams of distinct
\* tables of the discovered catalog, in any order.
Selections(cat) ==
    LET options == {ConfiguredAirbyteStream(cat.streams[i], n) :
                        i \in 1..Len(cat.streams), n \in BOOLEAN}
    IN  {sel \in DistinctSeqs(options, MaxSelection) :
            IsInjective([k \in 1..Len(sel) |-> sel[k].stream.name])}

\* The characters of a column name, and the string a sequence of characters
\* spells.
Chars(col) ==
    CASE col = "id"         -> <<"i", "d">>
      [] col = "name"       -> <<"n", "a", "m", "e">>
      [] col = "ts"         -> <<"t", "s">>
      [] col = "pay\"load" -> <<"p", "a", "y", Quote, "l", "o", "a", "d">>

RECURSIVE Text(_)
Text(chars) == IF chars = <<>> THEN "" ELSE Head(chars) \o Text(Tail(chars))

\* Columns with the keys taken in reverse order.
ColumnsReversed(c_stream) ==
    LET keys == DictKeys(c_stream.stream.json_schema.properties)
    IN  [k \in 1..Len(keys) |-> keys[Len(keys) + 1 - k]]

\* source.py:133-134 columns = list(table_properties.keys())
Columns(c_stream) == DictKeys(c_stream.stream.json_schema.properties)

\* source.py:136-137 '"{}"'.format(col): the characters of the column name
\* between two quote characters
EscapedColumnChars(col) == <<Quote>> \o Chars(col) \o <<Quote>>

\* source.py:137 the escaped column as the string put into the query
EscapedColumn(col) == Text(EscapedColumnChars(col))

\* source.py:137 escaped_columns
EscapedColumns(columns) == [k \in 1..Len(columns) |-> EscapedColumn(columns[k])]

\* source.py:132-139 the projection query of one configured stream
SelectQuery(c_stream) ==
    [kind |-> "select",
     table |-> c_stream.stream.name,
     columns |-> Columns(c_stream),
     text |-> "SELECT " \o JoinComma(EscapedColumns(Columns(c_stream)))
                  \o " FROM " \o c_stream.stream.name]

\* ReadCall with read an ordinary function: its body starts running at the
\* call, before the consumer has asked for anything.
ReadCallEager ==
    /\ catalog.ok
    /\ \E sel \in Selections(catalog), st \in States : BeginCall("read", "r_acquire", sel, st)
    /\ UNCHANGED catalogVars

\* source.py:101 read(logger, config, catalog, state) returns a generator; no
\* line of the body has run yet.
ReadCall ==
    /\ catalog.ok
    /\ \E sel \in Selections(catalog), st \in States : BeginCall("read", "r_created", sel, st)
    /\ UNCHANGED catalogVars

\* The consumer asks for the next message: the body starts, or resumes after
\* the yield of line 146.
ReadPull ==
    /\ op = "read" /\ consumer = "pulling"
    /\ \/ pc = "r_created" /\ pc' = "r_acquire"
       \/ pc = "r_yield" /\ pc' = "r_rows"
    /\ pulls' = pulls + 1
    /\ UNCHANGED <<tables, state, op, connVars, exc, result, discoverVars, catalogVars, readVars>>

\* The consumer stops pulling and drops the generator.
ReadStop ==
    /\ op = "read" /\ consumer = "pulling"
    /\ pc \in {"r_created", "r_yield"}
    /\ consumer' = "stopped"
    /\ UNCHANGED <<tables, callVars, op, pc, connVars, exc, result, discoverVars, catalogVars,
                   selection, pos, buffer, emitted>>

\* The dropped generator is closed: a body suspended at the yield of line 146
\* has GeneratorExit raised there; a body that never started does not run.
ReadGenClose ==
    /\ op = "read" /\ consumer = "stopped"
    /\ \/ /\ pc = "r_created"
          /\ pc' = "closed"
          /\ result' = [kind |-> "closed", status |-> "", message |-> "", error |-> NoExc]
          /\ UNCHANGED exc
       \/ /\ pc = "r_yield"
          /\ pc' = "r_cursor_exit"
          /\ exc' = GeneratorExit
          /\ UNCHANGED result
    /\ UNCHANGED <<tables, callVars, op, connVars, discoverVars, catalogVars, readVars>>

\* source.py:129 with establish_connection(config, logger) as connection
ReadAcquire ==
    /\ op = "read" /\ pc = "r_acquire"
    /\ acquires' = acquires + 1
    /\ \E outcome \in Outcomes :
       /\ faults' = Faults(faults, outcome)
       /\ IF outcome = "ok"
         THEN /\ sessions' = Append(sessions, NewSession)
              /\ pc' = "r_cursor"
              /\ UNCHANGED result
         ELSE /\ result' = [kind |-> "raised", status |-> "", message |-> "",
                            error |-> Raise("acquire")]
              /\ pc' = "raised"
              /\ UNCHANGED sessions
    /\ UNCHANGED <<tables, callVars, op, cursors, queries, exc, discoverVars, catalogVars, readVars>>

\* source.py:130 with connection.cursor() as cursor
ReadCursor ==
    /\ op = "read" /\ pc = "r_cursor"
    /\ \E outcome \in Outcomes :
       /\ faults' = Faults(faults, outcome)
       /\ IF outcome = "ok"
         THEN /\ cursors' = Append(cursors, NewCursor(Len(sessions), 0))
              /\ pc' = "r_loop"
              /\ UNCHANGED exc
         ELSE /\ exc' = Raise("cursor")
              /\ pc' = "r_conn_exit"
              /\ UNCHANGED cursors
    /\ UNCHANGED <<tables, callVars, op, acquires, sessions, queries, result, discoverVars,
                   catalogVars, readVars>>

\* source.py:131 the index of the configured stream the loop takes after `p`
NextStream(p) == p + 1

\* ReadLoop resuming after the first configured stream when the caller handed
\* in the state of an earlier run.
ReadLoopResumeFromState ==
    /\ op = "read" /\ pc = "r_loop"
    /\ IF pos < Len(selection)
       THEN /\ pos' = IF state # NoState /\ pos = 0 /\ Len(selection) > 1
                      THEN NextStream(NextStream(pos))
                      ELSE NextStream(pos)
            /\ pc' = "r_execute"
       ELSE pos' = pos /\ pc' = "r_cursor_exit"
    /\ UNCHANGED <<tables, callVars, op, connVars, exc, result, discoverVars, catalogVars,
                   selection, buffer, emitted, consumer>>

\* ReadLoop taking a further cursor for every table after the first and
\* leaving the one before it open.
ReadLoopCursorPerTable ==
    /\ op = "read" /\ pc = "r_loop"
    /\ IF pos < Len(selection)
       THEN /\ pos' = NextStream(pos)
            /\ pc' = "r_execute"
            /\ cursors' = IF pos > 0
                          THEN Append(cursors, NewCursor(Len(sessions), 0))
                          ELSE cursors
       ELSE pos' = pos /\ pc' = "r_cursor_exit" /\ cursors' = cursors
    /\ UNCHANGED <<tables, callVars, op, acquires, sessions, queries, faults, exc, result,
                   discoverVars, catalogVars, selection, buffer, emitted, consumer>>

\* source.py:131 for c_stream in catalog.streams
ReadLoop ==
    /\ op = "read" /\ pc = "r_loop"
    /\ IF pos < Len(selection)
       THEN pos' = NextStream(pos) /\ pc' = "r_execute"
       ELSE pos' = pos /\ pc' = "r_cursor_exit"
    /\ UNCHANGED <<tables, callVars, op, connVars, exc, result, discoverVars, catalogVars,
                   selection, buffer, emitted, consumer>>

\* ReadExecute with the failure of a table's query caught and the table
\* skipped.
ReadExecuteSkipTable ==
    /\ op = "read" /\ pc = "r_execute"
    /\ \E outcome \in Outcomes :
       /\ faults' = Faults(faults, outcome)
       /\ queries' = Append(queries, Logged(Len(cursors), SelectQuery(selection[pos]),
                                            ExecuteOutcome(outcome)))
       /\ IF outcome = "ok"
          THEN /\ cursors' = ExecuteOn(cursors, Len(cursors), SelectQuery(selection[pos]))
               /\ pc' = "r_fetch"
          ELSE /\ pc' = "r_loop"
               /\ UNCHANGED cursors
    /\ UNCHANGED <<tables, callVars, op, acquires, sessions, exc, result, discoverVars, catalogVars,
                   readVars>>

\* source.py:132-140 cursor.execute(query)
ReadExecute ==
    /\ op = "read" /\ pc = "r_execute"
    /\ \E outcome \in Outcomes :
       /\ faults' = Faults(faults, outcome)
       /\ queries' = Append(queries, Logged(Len(cursors), SelectQuery(selection[pos]),
                                            ExecuteOutcome(outcome)))
       /\ IF outcome = "ok"
         THEN /\ cursors' = ExecuteOn(cursors, Len(cursors), SelectQuery(selection[pos]))
              /\ pc' = "r_fetch"
              /\ UNCHANGED exc
         ELSE /\ exc' = Raise("execute")
              /\ pc' = "r_cursor_exit"
              /\ UNCHANGED cursors
    /\ UNCHANGED <<tables, callVars, op, acquires, sessions, result, discoverVars, catalogVars, readVars>>

\* source.py:143 cursor.fetchall(): the whole result of the query
ReadFetch ==
    /\ op = "read" /\ pc = "r_fetch"
    /\ \E outcome \in Outcomes :
       /\ faults' = Faults(faults, outcome)
       /\ IF outcome = "ok"
         THEN /\ buffer' = FetchAll(cursors, Len(cursors))
              /\ pc' = "r_rows"
              /\ UNCHANGED exc
         ELSE /\ exc' = Raise("fetch")
              /\ pc' = "r_cursor_exit"
              /\ UNCHANGED buffer
       /\ queries' = Answered(queries, Len(cursors),
                              IF outcome = "ok" THEN "ok" ELSE "fetch_failed")
    /\ UNCHANGED <<tables, callVars, op, acquires, sessions, cursors, result, discoverVars, catalogVars,
                   selection, pos, emitted, consumer>>

\* The message yielded for one row, with the position of its configured
\* stream in the selection and of its row in the fetched result.
Emitted(message, p, r) ==
    [type |-> message.kind, stream |-> message.stream, data |-> message.data,
     pos |-> p, row |-> r]

\* ReadRow taking the rows of the fetched result from its end.
ReadRowFromEnd ==
    /\ op = "read" /\ pc = "r_rows"
    /\ IF Len(buffer) = 0
       THEN /\ pc' = "r_loop"
            /\ UNCHANGED <<buffer, emitted, exc>>
       ELSE LET columns == Columns(selection[pos])
                message == airbyte_message_from_data(buffer[Len(buffer)], columns,
                                                     selection[pos].stream.name)
            IN  /\ buffer' = SubSeq(buffer, 1, Len(buffer) - 1)
                /\ CASE message.kind = "record" ->
                          /\ emitted' = Append(emitted, Emitted(message, pos, Len(buffer)))
                          /\ pc' = "r_yield"
                          /\ UNCHANGED exc
                     [] message.kind = "none" ->
                          /\ pc' = "r_rows"
                          /\ UNCHANGED <<emitted, exc>>
                     [] OTHER ->
                          /\ exc' = Raise("internal")
                          /\ pc' = "r_cursor_exit"
                          /\ UNCHANGED emitted
    /\ UNCHANGED <<tables, callVars, op, connVars, result, discoverVars, catalogVars,
                   selection, pos, consumer>>

\* source.py:143-146 for result in cursor.fetchall(): the next row is wrapped
\* and, if a message came of it, yielded.
ReadRow ==
    /\ op = "read" /\ pc = "r_rows"
    /\ IF Len(buffer) = 0
       THEN /\ pc' = "r_loop"
            /\ UNCHANGED <<buffer, emitted, exc>>
       ELSE LET columns == Columns(selection[pos])
                message == airbyte_message_from_data(Head(buffer), columns,
                                                     selection[pos].stream.name)
                r       == Len(FetchAll(cursors, Len(cursors))) - Len(buffer) + 1
            IN  /\ buffer' = Tail(buffer)
                /\ CASE message.kind = "record" ->
                          /\ emitted' = Append(emitted, Emitted(message, pos, r))
                          /\ pc' = "r_yield"
                          /\ UNCHANGED exc
                     [] message.kind = "none" ->
                          /\ pc' = "r_rows"
                          /\ UNCHANGED <<emitted, exc>>
                     [] OTHER ->
                          /\ exc' = Raise("internal")
                          /\ pc' = "r_cursor_exit"
                          /\ UNCHANGED emitted
    /\ UNCHANGED <<tables, callVars, op, connVars, result, discoverVars, catalogVars,
                   selection, pos, consumer>>

\* ReadCursorExit with the cursor closed by a statement at the end of the block
\* instead of by the with statement: an exception skips the close.
ReadCursorExitOnSuccessOnly ==
    /\ op = "read" /\ pc = "r_cursor_exit"
    /\ cursors' = IF exc = NoExc THEN CloseCursor(cursors, Len(cursors)) ELSE cursors
    /\ pc' = "r_conn_exit"
    /\ UNCHANGED <<tables, callVars, op, acquires, sessions, queries, faults, exc, result, discoverVars,
                   catalogVars, readVars>>

\* source.py:130 leaving the cursor's with block closes the cursor
ReadCursorExit ==
    /\ op = "read" /\ pc = "r_cursor_exit"
    /\ cursors' = CloseCursor(cursors, Len(cursors))
    /\ \E outcome \in Outcomes :
       /\ faults' = Faults(faults, outcome)
       /\ exc' = IF outcome = "ok" THEN exc ELSE Raise("close")
    /\ pc' = "r_conn_exit"
    /\ UNCHANGED <<tables, callVars, op, acquires, sessions, queries, result, discoverVars,
                   catalogVars, readVars>>

\* source.py:129,147 leaving the connection's with block closes the
\* connection; the generator then is exhausted, closed, or raises.
ReadConnExit ==
    /\ op = "read" /\ pc = "r_conn_exit"
    /\ sessions' = CloseSession(sessions, Len(sessions))
    /\ \E outcome \in Outcomes :
       /\ faults' = Faults(faults, outcome)
       /\ LET e == IF outcome = "ok" THEN exc ELSE Raise("close")
         IN  CASE e = NoExc ->
                    /\ result' = [kind |-> "exhausted", status |-> "", message |-> "",
                                  error |-> NoExc]
                    /\ pc' = "exhausted"
               [] e = GeneratorExit ->
                    /\ result' = [kind |-> "closed", status |-> "", message |-> "",
                                  error |-> NoExc]
                    /\ pc' = "closed"
               [] OTHER ->
                    /\ result' = [kind |-> "raised", status |-> "", message |-> "",
                                  error |-> e]
                    /\ pc' = "raised"
    /\ exc' = NoExc
    /\ UNCHANGED <<tables, callVars, op, acquires, cursors, queries, discoverVars, catalogVars, readVars>>

\* The steps the body of read takes by itself once it is running.
ReadBody == ReadAcquire \/ ReadCursor \/ ReadLoop \/ ReadExecute \/ ReadFetch \/ ReadRow
               \/ ReadCursorExit \/ ReadConnExit

Read == ReadCall \/ ReadPull \/ ReadStop \/ ReadGenClose \/ ReadBody

Next == Check \/ Discover \/ Read

Spec == Init /\ [][Next]_vars

\* A running body of read goes on to its next yield or to its end, and a
\* generator its consumer dropped is closed.
LiveSpec == Spec /\ WF_vars(ReadBody) /\ WF_vars(ReadGenClose)

\* ------------------------------------------------------ error taxonomy
\* The class under which a failure of `method` is reported: a failed
\* acquisition is a ConnectivityError, a violated internal invariant an
\* InternalError, any other failure the error of the method it aborts.
ErrorClass(method, e) ==
    CASE e.origin = "acquire"  -> "ConnectivityError"
      [] e.origin = "internal" -> "InternalError"
      [] method = "discover"   -> "DiscoveryError"
      [] method = "read"       -> "ExtractionError"
      [] OTHER                 -> "Error"

\* ---------------------------------------------------------------- claims
CallEnded == op # "none" /\ Returned
ReadEnded == op = "read" /\ Returned
NoneOpen == OpenSessions(sessions) = {} /\ OpenCursors(cursors) = {}

\* C1: once a read call has ended (the sequence exhausted, the generator
\* closed after the consumer stopped, or an error raised) no cursor and no
\* connection it opened is open; and once the consumer has stopped pulling,
\* the call does end with everything released.
C1_ReadLeavesNothingOpen ==
    /\ [](ReadEnded => NoneOpen)
    /\ ((op = "read" /\ consumer = "stopped") ~> (ReadEnded /\ NoneOpen))

\* C1 witness: the consumer stopped after a first record, with more to come,
\* and the connection and the cursor the call had opened are closed.
C1_StoppedMidStream ==
    /\ op = "read" /\ pc = "closed" /\ consumer = "stopped"
    /\ Len(emitted) = 1 /\ Len(buffer) > 0
    /\ Len(sessions) = 1 /\ Len(cursors) = 1
    /\ NoneOpen

\* C2: check never raises; whenever the store raised an error during the
\* call (acquiring, opening the cursor, executing the probe, releasing a
\* handle) check returns FAILED with a non-empty message that ends with the
\* text of the error caught, and SUCCEEDED only when nothing failed.
C2_CheckNeverRaises ==
    op = "check" =>
        /\ pc # "raised"
        /\ pc = "returned" =>
             /\ result.kind = "status"
             /\ faults > 0 =>
                  /\ result.status = "FAILED"
                  /\ result.error # NoExc
                  /\ Len(result.message) > 0
                  /\ result.message = "An exception occurred: " \o result.error.text
             /\ faults = 0 => result.status = "SUCCEEDED"

\* C2 witness: the probe succeeded and the release of the connection failed,
\* with an empty error text.
C2_ReleaseFailed ==
    /\ op = "check" /\ pc = "returned"
    /\ result.status = "FAILED"
    /\ result.error.origin = "close"
    /\ Len(queries) = 1 /\ queries[1].outcome = "ok"

C4_ExactlyOneSessionPerCall ==
    CallEnded => Len(sessions) = 1 /\ sessions[1].closes = 1

\* C4 as amended: a call acquires at most once; no session is closed twice;
\* when the call has ended every session it opened has been closed exactly
\* once; and it opened none only if the acquisition failed or, for read, the
\* generator was closed before its first pull.
C4_EverySessionClosedOnce ==
    /\ acquires <= 1
    /\ Len(sessions) <= acquires
    /\ \A k \in 1..Len(sessions) : sessions[k].closes <= 1
    /\ CallEnded =>
         /\ \A k \in 1..Len(sessions) : sessions[k].closes = 1 /\ ~sessions[k].open
         /\ Len(sessions) = 0 =>
              \/ acquires = 1 /\ result.error.origin = "acquire"
              \/ op = "read" /\ pc = "closed" /\ acquires = 0

\* C4 witness: a discover call that ended by propagating a task's error, its
\* one session closed once.
C4_ClosedOnErrorPropagation ==
    /\ op = "discover" /\ pc = "raised"
    /\ Len(sessions) = 1 /\ sessions[1].closes = 1
    /\ \E i \in 1..Len(tasks) : tasks[i].pc = "failed"

C6_ReadOrder ==
    op = "read" =>
        /\ \A k \in 1..Len(queries) : queries[k].query.table = selection[k].stream.name
        /\ \A a, b \in 1..Len(emitted) :
             a < b => \/ emitted[a].pos < emitted[b].pos
                      \/ /\ emitted[a].pos = emitted[b].pos
                         /\ emitted[a].row < emitted[b].row
        /\ \A m \in 1..Len(emitted) :
             LET c_stream == selection[emitted[m].pos]
                 row == StoreSelect(c_stream.stream.name,
                                    DictKeys(c_stream.stream.json_schema.properties))[emitted[m].row]
             IN  /\ emitted[m].stream = c_stream.stream.name
                 /\ [k \in 1..Len(emitted[m].data) |-> emitted[m].data[k].value] = row

\* C6 witness: two records of the first selected table were emitted, then one
\* of the second.
C6_TwoTablesEmitted ==
    /\ op = "read"
    /\ Len(emitted) >= 3
    /\ emitted[1].pos = 1 /\ emitted[2].pos = 1 /\ emitted[3].pos = 2

\* The tasks of the running discover call that have taken a cursor.
WithCursor == {i \in 1..Len(tasks) : tasks[i].cursor # 0}

\* C7 as stated: no two per-table tasks use the same connection or the same
\* cursor.
C7_OneSessionPerTask ==
    op = "discover" =>
        \A i, j \in WithCursor :
            i # j => /\ tasks[i].conn # tasks[j].conn
                     /\ tasks[i].cursor # tasks[j].cursor

\* C7 as amended: no two per-table tasks use the same cursor, each task's
\* cursor being one it opened itself; the connection is shared: discover
\* opens one session and every task's cursor is a cursor of that session.
C7_OwnCursorSharedConnection ==
    op = "discover" =>
        /\ Len(sessions) <= 1
        /\ \A i \in 1..Len(tasks) : tasks[i].conn = 1 /\ Len(sessions) = 1
        /\ \A i \in WithCursor :
             /\ cursors[tasks[i].cursor].owner = i
             /\ cursors[tasks[i].cursor].conn = tasks[i].conn
        /\ \A i, j \in WithCursor : i # j => tasks[i].cursor # tasks[j].cursor

\* C7 witness: two tasks are awaiting, each on its own cursor, both cursors on
\* the one connection.
C7_TwoTasksOneConnection ==
    /\ op = "discover" /\ pc = "d_gather"
    /\ \E i, j \in WithCursor :
         /\ i # j
         /\ tasks[i].cursor # tasks[j].cursor
         /\ tasks[i].conn = tasks[j].conn
         /\ cursors[tasks[i].cursor].open /\ cursors[tasks[j].cursor].open

\* The column names of a table in the order the store returns them.
StoreColumnNames(table) == [k \in 1..Len(ShowColumns(table)) |-> ShowColumns(table)[k][2]]

\* Discovery by a loop that handles one table after the other.
RECURSIVE SequentialDiscover(_)
SequentialDiscover(ts) ==
    IF Len(ts) = 0 THEN <<>>
    ELSE <<AirbyteStream(Head(ts), ColumnMapping(<<>>, ShowColumns(Head(ts))))>>
             \o SequentialDiscover(Tail(ts))

\* C8: a discover call that returned a catalog did so after every task had
\* returned; the catalog holds one stream per listed table, the streams a
\* sequential loop produces, and the columns of each stream are in the order
\* the store returned them.
C8_ConcurrentEqualsSequential ==
    (op = "discover" /\ pc = "returned") =>
        /\ result.kind = "catalog"
        /\ Len(tasks) = Len(tables)
        /\ \A i \in 1..Len(tasks) : tasks[i].pc = "done"
        /\ Len(catalog.streams) = Len(tables)
        /\ {catalog.streams[i].name : i \in 1..Len(catalog.streams)} = Range(tables)
        /\ Range(catalog.streams) = Range(SequentialDiscover(tables))
        /\ \A i \in 1..Len(catalog.streams) :
             DictKeys(catalog.streams[i].json_schema.properties)
                 = StoreColumnNames(catalog.streams[i].name)

\* C8 witness: discover returned a catalog of two tables.
C8_TwoTablesDiscovered ==
    /\ op = "discover" /\ pc = "returned"
    /\ Len(catalog.streams) = 2
    /\ \A i \in 1..Len(tasks) : tasks[i].pc = "done"

\* C9: for a configured stream that is a stream of the catalog as discovered,
\* the projection query names exactly the table's columns in the store's
\* order, and every envelope emitted for it has exactly those names as keys,
\* in that order.
C9_RoundTrip ==
    op = "read" =>
        \A k \in 1..Len(queries) :
            selection[k].stream \in Range(catalog.streams) =>
                LET names == StoreColumnNames(selection[k].stream.name)
                IN  /\ queries[k].query.columns = names
                    /\ \A m \in 1..Len(emitted) :
                         emitted[m].pos = k => DictKeys(emitted[m].data) = names

\* C9 witness: an envelope was emitted for a discovered stream of two columns.
C9_TwoColumnEnvelope ==
    /\ op = "read"
    /\ Len(emitted) >= 1
    /\ selection[1].stream \in Range(catalog.streams)
    /\ Len(emitted[1].data) = 2
    /\ emitted[1].pos = 1

\* C10: the catalogs of two successive discover calls that returned one list
\* the same tables and give each table the same columns with the same types.
C10_DiscoverIdempotent ==
    (prevCatalog.ok /\ catalog.ok) =>
        /\ {catalog.streams[i].name : i \in 1..Len(catalog.streams)}
             = {prevCatalog.streams[i].name : i \in 1..Len(prevCatalog.streams)}
        /\ \A i \in 1..Len(catalog.streams), j \in 1..Len(prevCatalog.streams) :
             catalog.streams[i].name = prevCatalog.streams[j].name =>
                 Range(catalog.streams[i].json_schema.properties)
                     = Range(prevCatalog.streams[j].json_schema.properties)

\* C10 witness: a second discover call has just returned a catalog of two
\* tables.
C10_SecondCatalog ==
    /\ op = "discover" /\ pc = "returned"
    /\ prevCatalog.ok /\ catalog.ok
    /\ Len(catalog.streams) = 2

\* ------------------------------------------------------------------- C11
IsPrefix(s, t) == Len(s) <= Len(t) /\ s = SubSeq(t, 1, Len(s))

\* The queries a read call of selection `sel` executes if nothing stops it, as
\* a function of the selection alone.
QueriesOf(sel) == [k \in 1..Len(sel) |-> SelectQuery(sel[k])]

\* The messages a read call of selection `sel` emits from row `r` of its
\* `p`-th configured stream on if nothing stops it, as a function of the
\* selection and the store alone.
RECURSIVE RecordsFrom(_, _, _)
RecordsFrom(sel, p, r) ==
    IF p > Len(sel)
    THEN <<>>
    ELSE LET name    == sel[p].stream.name
             columns == DictKeys(sel[p].stream.json_schema.properties)
             rows    == StoreSelect(name, columns)
         IN  IF r > Len(rows)
             THEN RecordsFrom(sel, p + 1, 1)
             ELSE LET message == airbyte_message_from_data(rows[r], columns, name)
                  IN  CASE message.kind = "record" ->
                             <<Emitted(message, p, r)>> \o RecordsFrom(sel, p, r + 1)
                        [] message.kind = "none" -> RecordsFrom(sel, p, r + 1)
                        [] OTHER -> <<>>

\* C11: whatever state a read call was given, the queries it has executed are
\* the first queries, and the messages it has emitted the first messages, of
\* the sequences its selection and the store alone determine, the state is
\* left as it was given, and every message emitted is a record, none a state
\* message.
C11_ReadIgnoresState ==
    op = "read" =>
        /\ IsPrefix([k \in 1..Len(queries) |-> queries[k].query], QueriesOf(selection))
        /\ IsPrefix(emitted, RecordsFrom(selection, 1, 1))
        /\ \A m \in 1..Len(emitted) : emitted[m].type = "record"
        /\ state \in States

\* C11 witness: a read call given the state of an earlier run went through
\* two tables from their first rows and emitted three records.
C11_ReadWithStateFromStart ==
    /\ op = "read" /\ pc = "exhausted"
    /\ state # NoState
    /\ Len(queries) = 2 /\ Len(emitted) >= 3

\* ------------------------------------------------------------------- C12
\* The store reads the characters `chars` as exactly the one identifier `col`.
NamesColumn(chars, col) ==
    LET read == LexIdentifier(chars)
    IN  read.ok /\ read.rest = <<>> /\ Text(read.name) = col

\* C12 as stated: every column of every projection query read executes is
\* put into the query in a form the store reads as that one column name,
\* whatever characters the name holds.
C12_QuotedColumnNamesTheColumn ==
    op = "read" =>
        \A k \in 1..Len(queries) :
            \A c \in 1..Len(queries[k].query.columns) :
                LET col == queries[k].query.columns[c]
                IN  /\ Text(Chars(col)) = col
                    /\ NamesColumn(EscapedColumnChars(col), col)

\* ------------------------------------------------------------------- C13
\* C13: every stream a per-table task of discover has built, every stream
\* gathered and every stream of a catalog discover returned advertises the
\* sync modes full_refresh and nothing else, so never incremental.
C13_FullRefreshOnly ==
    /\ \A i \in 1..Len(tasks) :
         tasks[i].pc = "done" => tasks[i].stream.supported_sync_modes = <<"full_refresh">>
    /\ \A i \in 1..Len(streams) : streams[i].supported_sync_modes = <<"full_refresh">>
    /\ \A i \in 1..Len(catalog.streams) :
         /\ catalog.streams[i].supported_sync_modes = <<"full_refresh">>
         /\ \A k \in 1..Len(catalog.streams[i].supported_sync_modes) :
              catalog.streams[i].supported_sync_modes[k] # "incremental"

\* C13 witness: discover returned a catalog of two streams whose columns are
\* of different tables.
C13_CatalogOfTwoStreams ==
    /\ op = "discover" /\ pc = "returned"
    /\ catalog.ok /\ Len(catalog.streams) = 2
    /\ catalog.streams[1].json_schema.properties # catalog.streams[2].json_schema.properties

\* ------------------------------------------------------------------- C14
\* C14 as stated: read takes a row from the cursor only once the message of
\* the row before it has been handed to the consumer, so it never holds more
\* than the one row it is about to emit, and never a table's whole result.
C14_RowFetchedAfterPreviousEmitted ==
    op = "read" => Len(buffer) <= 1

\* ------------------------------------------------------------------- C15
\* C15 as stated: read runs each table's query on a cursor opened for that
\* table, and when the query of the next table has been executed the cursor
\* of the table before it has been released.
C15_CursorPerTableReleasedBeforeNext ==
    op = "read" =>
        \A k \in 2..Len(queries) :
            /\ queries[k].cursor # queries[k - 1].cursor
            /\ ~cursors[queries[k - 1].cursor].open

\* ------------------------------------------------------------------- C16
\* C16: throughout a read call at most one cursor is open, no per-table task
\* runs, the rows read holds are rows of the table it last queried, and a
\* table's query is executed only when no row of an earlier table is left
\* to hand on.
C16_OneCursorOneTableAtATime ==
    op = "read" =>
        /\ Cardinality(OpenCursors(cursors)) <= 1
        /\ tasks = <<>>
        /\ pc = "r_execute" => buffer = <<>>
        /\ buffer # <<>> =>
             /\ pos = Len(queries)
             /\ cursors[queries[pos].cursor].query = SelectQuery(selection[pos])
             /\ \A k \in 1..Len(buffer) :
                  buffer[k] \in Range(StoreSelect(selection[pos].stream.name,
                                                  Columns(selection[pos])))

\* C16 witness: read is going through the rows of the second table of its
\* selection with one cursor open.
C16_SecondTableOneCursor ==
    /\ op = "read" /\ pos = 2
    /\ buffer # <<>>
    /\ Cardinality(OpenCursors(cursors)) = 1

\* ------------------------------------------------------------------- C17
\* C17 as stated: once a discover call has ended, by returning a catalog or
\* by raising, every cursor a per-table task opened has been closed.
C17_TaskCursorsClosedAtEnd ==
    (op = "discover" /\ pc \in {"returned", "raised"}) =>
        \A c \in 1..Len(cursors) : cursors[c].owner > 0 => ~cursors[c].open

\* ------------------------------------------------------------------- C18
\* C18: within one call a connection is asked for at most once and no query
\* is executed twice (one probe in check; one listing and one column query
\* per table in discover; one projection per configured stream in read); in
\* check and read no query follows a failed one, in discover none follows a
\* failed listing; and a call in which anything failed ends by reporting the
\* failure: check with a FAILED status, discover and read by raising.
C18_NoRetry ==
    /\ acquires <= 1
    /\ IsInjective([k \in 1..Len(queries) |-> queries[k].query])
    /\ op = "check" => Len(queries) <= 1
    /\ op = "discover" => Len(queries) <= 1 + Len(tables)
    /\ op = "read" => Len(queries) <= Len(selection)
    /\ op \in {"check", "read"} =>
         \A k \in 1..(Len(queries) - 1) : queries[k].outcome = "ok"
    /\ (op = "discover" /\ Len(queries) > 1) => queries[1].outcome = "ok"
    /\ (CallEnded /\ faults > 0) =>
         \/ op = "check" /\ result.kind = "status" /\ result.status = "FAILED"
         \/ op \in {"discover", "read"} /\ result.kind = "raised"

\* C18 witness: the probe query of check failed and check returned FAILED
\* having executed it once.
C18_ProbeFailedOnce ==
    /\ op = "check" /\ pc = "returned"
    /\ Len(queries) = 1 /\ queries[1].outcome = "execute_failed"
    /\ result.status = "FAILED"

\* ------------------------------------------------------------------- C19
\* The per-table tasks still waiting for an answer of the store.
PendingTasks == {i \in 1..Len(tasks) : tasks[i].pc \in {"await_execute", "await_fetchall"}}

\* C19 as stated: in every state of check, discover and read every open
\* cursor is a cursor of an open connection, and the connection of a task
\* still waiting on the store is open.
C19_CursorsWithinOpenConnection ==
    /\ \A c \in OpenCursors(cursors) : sessions[cursors[c].conn].open
    /\ \A i \in PendingTasks : sessions[tasks[i].conn].open

\* ------------------------------------------------------------------- C20
\* The messages emitted so far for the configured streams before position k.
EmittedBefore(k) == {m \in 1..Len(emitted) : emitted[m].pos < k}

\* C20: before the consumer's first pull read has asked for no connection, no
\* cursor and no query; it never runs more than one pull ahead of what it has
\* emitted; when the query of position k has been executed every record of
\* position k - 1 has been emitted and the consumer has pulled once more
\* after the last of them; the queries executed are those of the first
\* positions of the selection, and for a consumer that stopped they end at
\* the position of the last record it took.
C20_DemandDriven ==
    op = "read" =>
        /\ pulls = 0 =>
             acquires = 0 /\ sessions = <<>> /\ cursors = <<>> /\ queries = <<>>
        /\ Len(emitted) <= pulls /\ pulls <= Len(emitted) + 1
        /\ pc = "r_yield" => pulls = Len(emitted)
        /\ \A k \in 2..Len(queries) :
             /\ Cardinality({m \in 1..Len(emitted) : emitted[m].pos = k - 1})
                    = Len(RecordsFrom(<<selection[k - 1]>>, 1, 1))
             /\ pulls > Cardinality(EmittedBefore(k))
        /\ Len(queries) <= Len(selection)
        /\ \A k \in 1..Len(queries) : queries[k].query = SelectQuery(selection[k])
        /\ consumer = "stopped" =>
             Len(queries) = IF emitted = <<>> THEN 0 ELSE emitted[Len(emitted)].pos

\* C20 witness: the consumer took every record of the first of two tables
\* and one of the second, then stopped, and the generator was closed.
C20_StoppedInSecondTable ==
    /\ op = "read" /\ pc = "closed" /\ consumer = "stopped"
    /\ Len(selection) = 2 /\ Len(queries) = 2
    /\ emitted # <<>> /\ emitted[Len(emitted)].pos = 2
    /\ pulls = Len(emitted)
    /\ Len(RecordsFrom(selection, 1, 1)) > Len(emitted)

====
